---- MODULE Spec2Model ----
(***************************************************************************)
(* Geo-Quest: the checkpoint generator of the server (POST                 *)
(* /api/game/generate), the answer verification (POST /api/game/verify)    *)
(* and the client's Game component (checkpoint list, score, presented      *)
(* list).                                                                  *)
(*                                                                         *)
(* Coordinates.  A position is a pair lat/lng of integers counted in units *)
(* of 1/111000 degree of latitude (the constant of routes.ts line 36), the *)
(* longitude unit being stretched by 1/cos(lat) as in routes.ts line 39,   *)
(* so that the plane around the hunt is isotropic.  lat = 0 is the         *)
(* equator and lng = 0 the prime meridian: the two values JavaScript       *)
(* treats as falsy.  geolib's getDistance measures on a sphere of radius   *)
(* 6378137 m, where one such unit is 111319.49 / 111000 = 1.00288 m, and   *)
(* rounds to the nearest meter.                                            *)
(***************************************************************************)
EXTENDS Integers, Sequences, FiniteSets, TLC

VARIABLES
    \* ---- server: stores
    settings,         \* rows of the settings table (none or one)
    customCheckpoints,\* rows of custom_checkpoints
    userStats,        \* rows of user_stats
    today,            \* the server's date (new Date()), counted in days
    \* ---- server: one POST /api/game/generate request
    gpc,              \* "idle" | "placing" | "exhausted" | "mapped" | "done"
    req,              \* the parsed request {lat, lng, radius, count}
    rovingCount,      \* the handler's local rovingCount
    randomQuestions,  \* the sampled questions
    index,            \* index of the question being mapped (0-based)
    attempts,         \* the placement loop's counter
    finalLat, finalLng,
    generatedCoords,  \* the batch's placed-point list
    generated,        \* checkpoints returned by the map so far
    response,         \* body of the answer
    status,           \* 0 (none yet) | 200 | 400
    spent,            \* indices whose 50-attempt budget was spent
    \* ---- client: Game component
    lat, lng,         \* useGeolocation
    checkpoints,      \* useState<Checkpoint[]>
    arCheckpoints,    \* ARView: useState(initialCheckpoints), positions in fine units
    score,
    gameMode,         \* "menu" | "ar" | "nature"
    activeQuestion,   \* a checkpoint or NoQuestion (null)
    timeRemaining,    \* seconds left, NoTime (null) before the first hunt
    gameOver,
    tapTimers,        \* ARView.handleTap: checkpoints whose 600 ms timer is pending
    inflight,         \* handleVerify calls awaiting their answer: the id of the
                      \* activeQuestion they closed over, and the answer under way
    verifies,         \* number of verify requests sent so far
    hunts,            \* number of hunts started so far
    \* ---- client: ARView's drawing of one checkpoint
    compassHeading,   \* useState<number>(0), degrees
    bearing,          \* getRhumbLineBearing(player, checkpoint), degrees
    relativeBearing,  \* as getCheckpointScreenPosition leaves it
    cpDistance,       \* getDistance(player, checkpoint), meters
    screen,           \* what the render makes of the checkpoint
    \* ---- server: the requests on user_stats being handled
    handlers,         \* one record per request: where its handler stands
    awarded,          \* points awarded: those in total_points at the start and
                      \* those the answers to the requests of handlers reported
    \* ---- server: the generate requests of two clients
    arrived,          \* bodies of the generate requests received, in order
    answers           \* the requests answered, with the locals of their handlers

serverVars == <<settings, customCheckpoints, userStats, today>>
genVars == <<gpc, req, rovingCount, randomQuestions, index, attempts, finalLat,
             finalLng, generatedCoords, generated, response, status, spent>>
clientVars == <<lat, lng, checkpoints, arCheckpoints, score, gameMode, activeQuestion,
                timeRemaining, gameOver, tapTimers, inflight, verifies, hunts>>
viewVars == <<compassHeading, bearing, relativeBearing, cpDistance, screen>>
apiVars == <<handlers, awarded>>
reqVars == <<arrived, answers>>
vars == <<serverVars, genVars, clientVars, viewVars, apiVars, reqVars>>

(***************************************************************************)
(* The questions table: the seed of registerRoutes.                        *)
(***************************************************************************)
Questions ==
    <<[id |-> 1, question |-> "Gold", answer |-> "Au",
       options |-> <<"Au", "Ag", "Fe", "Cu">>, points |-> 10],
      [id |-> 2, question |-> "Red Planet", answer |-> "Mars",
       options |-> <<"Venus", "Mars", "Jupiter", "Saturn">>, points |-> 10],
      [id |-> 3, question |-> "Powerhouse", answer |-> "Mitochondria",
       options |-> <<"Nucleus", "Mitochondria", "Ribosome", "Golgi">>, points |-> 15],
      [id |-> 4, question |-> "Plants absorb", answer |-> "Carbon Dioxide",
       options |-> <<"Oxygen", "Nitrogen", "Carbon Dioxide", "Hydrogen">>, points |-> 10],
      [id |-> 5, question |-> "Bones", answer |-> "206",
       options |-> <<"206", "208", "210", "205">>, points |-> 20]>>

QuestionIds == {Questions[i].id : i \in DOMAIN Questions}

\* storage.getQuestion(id): the row, or undefined (here: a record of id 0)
NoQuestion == [id |-> 0]

getQuestion(id) ==
    IF id \in QuestionIds
    THEN Questions[CHOOSE i \in DOMAIN Questions : Questions[i].id = id]
    ELSE NoQuestion

Min(a, b) == IF a < b THEN a ELSE b

(***************************************************************************)
(* Program constants.                                                      *)
(***************************************************************************)
minDistanceFromCenter == 7
minDistanceBetweenCheckpoints == 7
MaxAttempts == 50
DefaultRadius == 500
DefaultCount == 5

(***************************************************************************)
(* Bounds of the model.                                                    *)
(***************************************************************************)
MaxCustom == 1          \* rows of custom_checkpoints

(***************************************************************************)
(* geolib getDistance, accuracy 1: the great-circle distance rounded to    *)
(* the nearest meter.  On the plane of the model the distance in meters is *)
(* k * sqrt(dLat^2 + dLng^2) with k = 111319.49 / 111000; k^2 is taken as  *)
(* 175/174 (1.005747 for 1.005765).  The result is the n with              *)
(* (2n-1)^2 * 174 <= 4 * 175 * d2 < (2n+1)^2 * 174.                        *)
(***************************************************************************)
RECURSIVE RoundedRoot(_, _, _)
RoundedRoot(d2, lo, hi) ==
    IF lo = hi THEN lo
    ELSE LET mid == (lo + hi + 1) \div 2
         IN  IF (2 * mid - 1) * (2 * mid - 1) * 174 <= 700 * d2
             THEN RoundedRoot(d2, mid, hi)
             ELSE RoundedRoot(d2, lo, mid - 1)

getDistance(aLat, aLng, bLat, bLng) ==
    LET d2 == (aLat - bLat) * (aLat - bLat) + (aLng - bLng) * (aLng - bLng)
    IN  IF d2 = 0 THEN 0 ELSE RoundedRoot(d2, 1, 1500)

(***************************************************************************)
(* One candidate of the placement loop.  The two Math.random() draws give  *)
(* a polar offset (r, t) with r = (7 + sqrt(u) * (radius - 7)) / 111000    *)
(* degrees, u in [0, 1): in the model's units an offset <<x, y>> whose     *)
(* length r lies in [7, radius) (radius > 7), is 7 (radius = 7) or lies in *)
(* (radius, 7] (radius < 7).  Offsets is the sample of offsets drawn.      *)
(***************************************************************************)
Offsets ==
    { <<7, 0>>, <<14, 0>>, <<8, 5>>, <<0, 100>>, <<-100, 0>>, <<499, 20>> }

CanDraw(off, radius) ==
    LET r2 == off[1] * off[1] + off[2] * off[2]
        m2 == minDistanceFromCenter * minDistanceFromCenter
    IN  IF radius > minDistanceFromCenter THEN m2 <= r2 /\ r2 < radius * radius
        ELSE IF radius = minDistanceFromCenter THEN r2 = m2
        ELSE radius * radius < r2 /\ r2 <= m2

\* mutant: the clearance is checked against the last placed point only
tooCloseToLast(fLat, fLng, coords) ==
    /\ coords # <<>>
    /\ getDistance(fLat, fLng, coords[Len(coords)].lat, coords[Len(coords)].lng)
            < minDistanceBetweenCheckpoints

\* routes.ts 45-47: generatedCoords.some(c => getDistance(final, c) < 7)
tooCloseToOthers(fLat, fLng, coords) ==
    \E i \in DOMAIN coords :
        getDistance(fLat, fLng, coords[i].lat, coords[i].lng)
            < minDistanceBetweenCheckpoints

\* routes.ts 44, 49: the condition of the break
Accepts(cLat, cLng, radius, fLat, fLng, coords) ==
    LET distFromStart == getDistance(cLat, cLng, fLat, fLng)
    IN  /\ distFromStart >= minDistanceFromCenter
        /\ distFromStart <= radius
        /\ ~tooCloseToOthers(fLat, fLng, coords)

\* mutant: the first roving index is off by one
GeneratedCheckpointOffByOne(q, idx, count, fLat, fLng) ==
    LET isRoving == idx > count
    IN  [id |-> q.id, lat |-> fLat, lng |-> fLng, question |-> q.question,
         options |-> q.options,
         points |-> IF isRoving THEN q.points * 2 ELSE q.points,
         collected |-> FALSE, isCustom |-> FALSE, isRoving |-> isRoving]

\* routes.ts 55-65: the checkpoint the map callback returns
GeneratedCheckpoint(q, idx, count, fLat, fLng) ==
    LET isRoving == idx >= count
    IN  [id |-> q.id, lat |-> fLat, lng |-> fLng, question |-> q.question,
         options |-> q.options,
         points |-> IF isRoving THEN q.points * 2 ELSE q.points,
         collected |-> FALSE, isCustom |-> FALSE, isRoving |-> isRoving]

\* mutant: lat and lng of the stored row are swapped
CustomCheckpointSwapped(cp) ==
    LET q == getQuestion(cp.questionId)
    IN  [id |-> q.id, lat |-> cp.lng, lng |-> cp.lat, question |-> q.question,
         options |-> q.options, points |-> q.points,
         collected |-> FALSE, isCustom |-> TRUE, isRoving |-> FALSE]

\* routes.ts 67-77: a custom checkpoint with its joined question
CustomCheckpoint(cp) ==
    LET q == getQuestion(cp.questionId)
    IN  [id |-> q.id, lat |-> cp.lat, lng |-> cp.lng, question |-> q.question,
         options |-> q.options, points |-> q.points,
         collected |-> FALSE, isCustom |-> TRUE, isRoving |-> FALSE]

\* storage.getCustomCheckpoints: the inner join keeps the rows whose question exists
getCustomCheckpoints(rows) ==
    SelectSeq(rows, LAMBDA r : r.questionId \in QuestionIds)

MapCustom(rows) ==
    [i \in DOMAIN getCustomCheckpoints(rows) |->
        CustomCheckpoint(getCustomCheckpoints(rows)[i])]

\* storage.getSettings
getSettings(rows) ==
    IF rows = <<>>
    THEN [timeLimit |-> 30, checkpointCount |-> 5, rovingCount |-> 2, radius |-> 500]
    ELSE rows[1]

(***************************************************************************)
(* storage.getRandomQuestions(n): ORDER BY RANDOM() LIMIT n, the first n   *)
(* rows of a random order of the table, or the whole table when it holds   *)
(* fewer than n.  SampleOrders is the sample of orders drawn.              *)
(***************************************************************************)
SampleOrders == { <<1, 2, 3, 4, 5>>, <<5, 3, 1, 2, 4>> }

getRandomQuestions(n) ==
    { [i \in 1..Min(n, Len(Questions)) |-> Questions[o[i]]] : o \in SampleOrders }

(***************************************************************************)
(* POST /api/game/generate.                                                *)
(*                                                                         *)
(* A request body names the fields it carries.  parse throws when lat or   *)
(* lng is missing; radius and count take their zod defaults.               *)
(***************************************************************************)
\* where the player of the model stands when the hunt is requested
Center == [lat |-> 1000, lng |-> 2000]

Bodies ==
    { [has |-> {"lat", "lng", "radius", "count"},       \* as the client sends it
       lat |-> Center.lat, lng |-> Center.lng, radius |-> 10, count |-> 1],
      [has |-> {"lat", "lng", "radius"},                \* count by default
       lat |-> Center.lat, lng |-> Center.lng, radius |-> 10, count |-> 0],
      [has |-> {"lat", "lng", "count"},                 \* radius by default
       lat |-> Center.lat, lng |-> Center.lng, radius |-> 0, count |-> 1],
      [has |-> {"lng", "radius", "count"},              \* malformed: no lat
       lat |-> 0, lng |-> Center.lng, radius |-> 10, count |-> 1] }

ParseOk(body) == "lat" \in body.has /\ "lng" \in body.has

Parse(body) ==
    [lat |-> body.lat, lng |-> body.lng,
     radius |-> IF "radius" \in body.has THEN body.radius ELSE DefaultRadius,
     count |-> IF "count" \in body.has THEN body.count ELSE DefaultCount]

NoRequest == [lat |-> 0, lng |-> 0, radius |-> 0, count |-> 0]

\* routes.ts 81-83: the catch
GenerateFails(body) ==
    /\ gpc = "idle"
    /\ ~ParseOk(body)
    /\ status' = 400
    /\ response' = <<>>
    /\ gpc' = "done"
    /\ UNCHANGED <<req, rovingCount, randomQuestions, index, attempts, finalLat,
                   finalLng, generatedCoords, generated, spent>>
    /\ UNCHANGED <<serverVars, clientVars, viewVars, apiVars, reqVars>>

\* routes.ts 17-33: parse, the three reads, and the entry of the first callback
GenerateRequest(body) ==
    /\ gpc = "idle"
    /\ ParseOk(body)
    /\ LET r == Parse(body)
           rc == getSettings(settings).rovingCount
           totalCount == r.count + rc
       IN  \E sample \in getRandomQuestions(totalCount) :
             /\ req' = r
             /\ rovingCount' = rc
             /\ randomQuestions' = sample
             /\ index' = 0
             /\ attempts' = 0
             /\ finalLat' = r.lat
             /\ finalLng' = r.lng
             /\ gpc' = IF Len(sample) = 0 THEN "mapped" ELSE "placing"
    /\ UNCHANGED <<generatedCoords, generated, response, status, spent>>
    /\ UNCHANGED <<serverVars, clientVars, viewVars, apiVars, reqVars>>

\* routes.ts 53-66: push, return the checkpoint, enter the next callback
Push(fLat, fLng) ==
    /\ generatedCoords' = Append(generatedCoords, [lat |-> fLat, lng |-> fLng])
    /\ generated' = Append(generated,
           GeneratedCheckpoint(randomQuestions[index + 1], index, req.count, fLat, fLng))
    /\ index' = index + 1
    /\ attempts' = 0
    /\ finalLat' = req.lat
    /\ finalLng' = req.lng
    /\ gpc' = IF index + 1 = Len(randomQuestions) THEN "mapped" ELSE "placing"

\* routes.ts 35-49: an iteration whose candidate passes the validation: break
AttemptBreak(off) ==
    /\ gpc = "placing"
    /\ attempts < MaxAttempts
    /\ CanDraw(off, req.radius)
    /\ Accepts(req.lat, req.lng, req.radius, req.lat + off[1], req.lng + off[2],
               generatedCoords)
    /\ Push(req.lat + off[1], req.lng + off[2])
    /\ UNCHANGED <<req, rovingCount, randomQuestions, response, status, spent>>
    /\ UNCHANGED <<serverVars, clientVars, viewVars, apiVars, reqVars>>

\* mutant: the loop has no retry budget (while (true))
AttemptRetryUnbounded(off) ==
    /\ gpc = "placing"
    /\ CanDraw(off, req.radius)
    /\ ~Accepts(req.lat, req.lng, req.radius, req.lat + off[1], req.lng + off[2],
                generatedCoords)
    /\ finalLat' = req.lat + off[1]
    /\ finalLng' = req.lng + off[2]
    /\ attempts' = attempts + 1
    /\ UNCHANGED <<gpc, req, rovingCount, randomQuestions, index, generatedCoords,
                   generated, response, status, spent>>
    /\ UNCHANGED <<serverVars, clientVars, viewVars, apiVars, reqVars>>

\* routes.ts 35-50: an iteration whose candidate fails, the loop going on
AttemptRetry(off) ==
    /\ gpc = "placing"
    /\ attempts + 1 < MaxAttempts
    /\ CanDraw(off, req.radius)
    /\ ~Accepts(req.lat, req.lng, req.radius, req.lat + off[1], req.lng + off[2],
                generatedCoords)
    /\ finalLat' = req.lat + off[1]
    /\ finalLng' = req.lng + off[2]
    /\ attempts' = attempts + 1
    /\ UNCHANGED <<gpc, req, rovingCount, randomQuestions, index, generatedCoords,
                   generated, response, status, spent>>
    /\ UNCHANGED <<serverVars, clientVars, viewVars, apiVars, reqVars>>

\* mutant: a spent budget is raised as an error and answered by the catch
AttemptLastThrows(off) ==
    /\ gpc = "placing"
    /\ attempts + 1 = MaxAttempts
    /\ CanDraw(off, req.radius)
    /\ ~Accepts(req.lat, req.lng, req.radius, req.lat + off[1], req.lng + off[2],
                generatedCoords)
    /\ spent' = spent \cup {index}
    /\ status' = 400
    /\ response' = <<>>
    /\ gpc' = "done"
    /\ UNCHANGED <<req, rovingCount, randomQuestions, index, attempts, finalLat,
                   finalLng, generatedCoords, generated>>
    /\ UNCHANGED <<serverVars, clientVars, viewVars, apiVars, reqVars>>

\* mutant: after a spent budget the point is left at the center (the initial
\* finalLat, finalLng)
AttemptLastAtCenter(off) ==
    /\ gpc = "placing"
    /\ attempts + 1 = MaxAttempts
    /\ CanDraw(off, req.radius)
    /\ ~Accepts(req.lat, req.lng, req.radius, req.lat + off[1], req.lng + off[2],
                generatedCoords)
    /\ spent' = spent \cup {index}
    /\ Push(req.lat, req.lng)
    /\ UNCHANGED <<req, rovingCount, randomQuestions, response, status>>
    /\ UNCHANGED <<serverVars, clientVars, viewVars, apiVars, reqVars>>

\* routes.ts 35-53: the iteration that spends the budget: the loop ends and the
\* candidate it drew is pushed
AttemptLast(off) ==
    /\ gpc = "placing"
    /\ attempts + 1 = MaxAttempts
    /\ CanDraw(off, req.radius)
    /\ ~Accepts(req.lat, req.lng, req.radius, req.lat + off[1], req.lng + off[2],
                generatedCoords)
    /\ spent' = spent \cup {index}
    /\ Push(req.lat + off[1], req.lng + off[2])
    /\ UNCHANGED <<req, rovingCount, randomQuestions, response, status>>
    /\ UNCHANGED <<serverVars, clientVars, viewVars, apiVars, reqVars>>

\* routes.ts 29, 67-80: the custom checkpoints follow; res.json
Respond ==
    /\ gpc = "mapped"
    /\ response' = generated \o MapCustom(customCheckpoints)
    /\ status' = 200
    /\ gpc' = "done"
    /\ UNCHANGED <<req, rovingCount, randomQuestions, index, attempts, finalLat,
                   finalLng, generatedCoords, generated, spent>>
    /\ UNCHANGED <<serverVars, clientVars, viewVars, apiVars, reqVars>>

(***************************************************************************)
(* The user_stats table (schema: part_000 29-38) and the storage methods   *)
(* on it.  A date is the number of its day; lastActivityDate = NoDate is   *)
(* the column's null.                                                      *)
(***************************************************************************)
NoDate == 0

\* Game 419: timeRemaining = null
NoTime == 0 - 1
FirstDay == 30          \* the day the model starts on
HistoryCap == 30

\* storage.getUserStats 89-95 with the column defaults: the row inserted
NewStats(id) ==
    [id |-> id, totalPoints |-> 0, currentStreak |-> 0, longestStreak |-> 0,
     lastActivityDate |-> NoDate, huntsCompleted |-> 0, streakFreezes |-> 0,
     pointsHistory |-> <<>>]

\* mutant: the history is cut to its first 30 entries
HistoryKeepsOldest(history, day, points) ==
    LET at == {k \in DOMAIN history : history[k].date = day}
        h == IF at # {}
             THEN [history EXCEPT ![CHOOSE k \in at : \A j \in at : k <= j].points
                                      = @ + points]
             ELSE Append(history, [date |-> day, points |-> points])
    IN  IF Len(h) > HistoryCap THEN SubSeq(h, 1, HistoryCap) ELSE h

\* storage.addPoints 114-123: the history written
HistoryAfter(history, day, points) ==
    LET at == {k \in DOMAIN history : history[k].date = day}
        h == IF at # {}
             THEN [history EXCEPT ![CHOOSE k \in at : \A j \in at : k <= j].points
                                      = @ + points]
             ELSE Append(history, [date |-> day, points |-> points])
    IN  IF Len(h) > HistoryCap THEN SubSeq(h, Len(h) - HistoryCap + 1, Len(h)) ELSE h

\* storage.addPoints 125-131: the columns set, from the stats read
PointsUpdate(stats, day, points) ==
    [totalPoints |-> stats.totalPoints + points,
     pointsHistory |-> HistoryAfter(stats.pointsHistory, day, points)]

\* mutant: a completion gifts no streak freeze
HuntUpdateNoGift(stats, day) ==
    LET hasToday == stats.lastActivityDate = day
        hasYesterday == stats.lastActivityDate = day - 1
        useFreeze == ~hasToday /\ ~hasYesterday /\ stats.streakFreezes > 0
        currentStreak ==
            IF hasToday THEN stats.currentStreak
            ELSE IF hasYesterday \/ useFreeze THEN stats.currentStreak + 1
            ELSE 1
        streakFreezes == IF useFreeze THEN stats.streakFreezes - 1
                         ELSE stats.streakFreezes
    IN  [currentStreak |-> currentStreak,
         longestStreak |-> IF currentStreak > stats.longestStreak
                           THEN currentStreak ELSE stats.longestStreak,
         lastActivityDate |-> day,
         huntsCompleted |-> stats.huntsCompleted + 1,
         streakFreezes |-> streakFreezes]

\* mutant: the day after the last activity is not told from a missed day (a freeze
\* is used whenever the last activity was not today)
HuntUpdateNoYesterday(stats, day) ==
    LET hasToday == stats.lastActivityDate = day
        useFreeze == ~hasToday /\ stats.streakFreezes > 0
        currentStreak ==
            IF hasToday THEN stats.currentStreak
            ELSE IF useFreeze THEN stats.currentStreak + 1
            ELSE 1
        streakFreezes == (IF useFreeze THEN stats.streakFreezes - 1
                          ELSE stats.streakFreezes) + 1
    IN  [currentStreak |-> currentStreak,
         longestStreak |-> IF currentStreak > stats.longestStreak
                           THEN currentStreak ELSE stats.longestStreak,
         lastActivityDate |-> day,
         huntsCompleted |-> stats.huntsCompleted + 1,
         streakFreezes |-> streakFreezes]

\* routes.ts 183-214: the columns POST /api/stats/complete-hunt sets
HuntUpdate(stats, day) ==
    LET hasToday == stats.lastActivityDate = day
        hasYesterday == stats.lastActivityDate = day - 1
        useFreeze == ~hasToday /\ ~hasYesterday /\ stats.streakFreezes > 0
        currentStreak ==
            IF hasToday THEN stats.currentStreak
            ELSE IF hasYesterday \/ useFreeze THEN stats.currentStreak + 1
            ELSE 1
        streakFreezes == (IF useFreeze THEN stats.streakFreezes - 1
                          ELSE stats.streakFreezes) + 1
    IN  [currentStreak |-> currentStreak,
         longestStreak |-> IF currentStreak > stats.longestStreak
                           THEN currentStreak ELSE stats.longestStreak,
         lastActivityDate |-> day,
         huntsCompleted |-> stats.huntsCompleted + 1,
         streakFreezes |-> streakFreezes]

\* db.update(userStats).set(columns).where(eq(userStats.id, id))
UpdateWhere(rows, id, columns) ==
    [k \in DOMAIN rows |-> IF rows[k].id = id THEN columns @@ rows[k] ELSE rows[k]]

\* storage.getUserStats run alone: the table after it (the row is created lazily)
WithStats(rows) == IF rows = <<>> THEN <<NewStats(1)>> ELSE rows

\* storage.addPoints run alone, no other request in between
AddPoints(rows, day, points) ==
    LET stats == WithStats(rows)[1]
    IN  UpdateWhere(WithStats(rows), stats.id, PointsUpdate(stats, day, points))

\* POST /api/stats/complete-hunt run alone
CompleteHunt(rows, day) ==
    LET stats == WithStats(rows)[1]
    IN  UpdateWhere(WithStats(rows), stats.id, HuntUpdate(stats, day))

\* user_stats.total_points as GET /api/stats reports it
TotalPoints(rows) == IF rows = <<>> THEN 0 ELSE rows[1].totalPoints
HuntsCompleted(rows) == IF rows = <<>> THEN 0 ELSE rows[1].huntsCompleted

(***************************************************************************)
(* The stores before a request.                                            *)
(***************************************************************************)
SettingsRows ==
    { <<>>,
      <<[timeLimit |-> 30, checkpointCount |-> 2, rovingCount |-> 1, radius |-> 10]>> }

\* rows an admin placed through POST /api/checkpoints/custom
CustomRows ==
    <<[id |-> 1, lat |-> Center.lat + 7, lng |-> Center.lng, questionId |-> 3],
      [id |-> 2, lat |-> Center.lat + 300, lng |-> Center.lng - 40, questionId |-> 5],
      [id |-> 3, lat |-> Center.lat, lng |-> Center.lng, questionId |-> 3]>>

CustomTables == { SubSeq(CustomRows, 1, n) : n \in 0..Min(MaxCustom, Len(CustomRows)) }

InitStores ==
    /\ settings \in SettingsRows
    /\ customCheckpoints \in CustomTables
    /\ userStats = <<>>
    /\ today = FirstDay

InitGenerate ==
    /\ gpc = "idle"
    /\ req = NoRequest
    /\ rovingCount = 0
    /\ randomQuestions = <<>>
    /\ index = 0
    /\ attempts = 0
    /\ finalLat = 0
    /\ finalLng = 0
    /\ generatedCoords = <<>>
    /\ generated = <<>>
    /\ response = <<>>
    /\ status = 0
    /\ spent = {}

InitClient ==
    /\ lat = Center.lat
    /\ lng = Center.lng
    /\ checkpoints = <<>>
    /\ arCheckpoints = <<>>
    /\ score = 0
    /\ gameMode = "menu"
    /\ activeQuestion = NoQuestion
    /\ timeRemaining = NoTime
    /\ gameOver = FALSE
    /\ tapTimers = <<>>
    /\ inflight = <<>>
    /\ verifies = 0
    /\ hunts = 0

\* ARView 42 and a checkpoint due north of the player
InitView ==
    /\ compassHeading = 0
    /\ bearing = 0
    /\ relativeBearing = 0
    /\ cpDistance = 0
    /\ screen = [drawn |-> TRUE, x |-> 150]

\* no request on user_stats is being handled; nothing was ever awarded
InitApi ==
    /\ handlers = <<>>
    /\ awarded = 0

InitRequests ==
    /\ arrived = <<>>
    /\ answers = <<>>

Init == InitStores /\ InitGenerate /\ InitClient /\ InitView /\ InitApi /\ InitRequests

NextGenerate ==
    \/ \E body \in Bodies : GenerateFails(body)
    \/ \E body \in Bodies : GenerateRequest(body)
    \/ \E off \in Offsets : AttemptBreak(off)
    \/ \E off \in Offsets : AttemptRetry(off)
    \/ \E off \in Offsets : AttemptLast(off)
    \/ Respond

SpecGenerate == Init /\ [][NextGenerate]_vars

(***************************************************************************)
(* Claims about POST /api/game/generate (SpecGenerate).                    *)
(***************************************************************************)
Answered == gpc = "done" /\ status = 200

\* the generated (non-custom) checkpoints of a response
GeneratedOf(resp) == SelectSeq(resp, LAMBDA c : ~c.isCustom)
RovingOf(resp) == SelectSeq(resp, LAMBDA c : c.isRoving)

\* distance of a checkpoint from the request's center, and between two checkpoints
FromCenter(c) == getDistance(req.lat, req.lng, c.lat, c.lng)
Between(c, d) == getDistance(c.lat, c.lng, d.lat, d.lng)

\* C1: the answer to a valid request holds exactly count + rovingCount generated
\* checkpoints (rovingCount being the settings store's).
CX_C1 ==
    Answered =>
        Len(GeneratedOf(response)) = req.count + getSettings(settings).rovingCount

\* candidates the request may still draw: 50 for every point not yet placed, less
\* those the point being placed has used
Remaining == MaxAttempts * (Len(randomQuestions) - index) - attempts

\* C2: the placement loop draws a candidate only while attempts < 50, and every
\* candidate drawn uses up at least one of the 50 * N draws of a request for N
\* points, of which none is ever overdrawn: generation ends after at most 50 * N
\* candidates, whether or not a candidate can satisfy the constraints.
Thm_C2 ==
    [][gpc = "placing" =>
         /\ attempts < MaxAttempts
         /\ Remaining' < Remaining
         /\ Remaining' >= 0
         /\ (index' = index /\ attempts' = attempts + 1)
              \/ (index' = index + 1 /\ attempts' = 0)]_vars

Wit_C2 ==
    /\ Answered
    /\ req.radius = 10
    /\ Cardinality(spent) >= 2
    /\ Len(generated) = Len(randomQuestions)

\* C3: when a point's 50-attempt budget is spent the request is still answered with
\* the checkpoint list (200, not 400) and every sampled question has its checkpoint.
Thm_C3 ==
    (gpc = "done" /\ spent # {}) =>
        /\ status = 200
        /\ Len(GeneratedOf(response)) = Len(randomQuestions)
        /\ \A i \in spent : response[i + 1].id = randomQuestions[i + 1].id

Wit_C3 == Answered /\ spent # {} /\ Len(response) > Cardinality(spent)

Thm_C5 ==
    Answered =>
        LET g == GeneratedOf(response)
        IN  \A i \in DOMAIN g :
                IF i - 1 >= req.count
                THEN g[i].isRoving /\ g[i].points = 2 * getQuestion(g[i].id).points
                ELSE ~g[i].isRoving /\ g[i].points = getQuestion(g[i].id).points

Wit_C5 ==
    /\ Answered
    /\ \E i \in DOMAIN response :
          response[i].isRoving /\ response[i].id = 3 /\ response[i].points = 30
    /\ \E i \in DOMAIN response : ~response[i].isRoving /\ ~response[i].isCustom

\* C7: the i-th generated checkpoint carries the id, question and options of the
\* i-th sampled question, the first count are ordinary, the others roving, and the
\* answer holds exactly rovingCount (of the settings store) roving checkpoints.
CX_C7 ==
    Answered =>
        LET g == GeneratedOf(response)
        IN  /\ \A i \in DOMAIN g :
                /\ g[i].id = randomQuestions[i].id
                /\ g[i].question = randomQuestions[i].question
                /\ g[i].options = randomQuestions[i].options
                /\ g[i].isRoving <=> (i > req.count)
            /\ Len(RovingOf(response)) = getSettings(settings).rovingCount

\* C8: the custom checkpoints follow the generated ones verbatim: stored lat/lng,
\* isCustom, not roving, not collected, the linked question's base points; none
\* was placed or checked: the batch's placed-point list holds the generated
\* checkpoints' positions and nothing else, and the generated part of the answer
\* is what the map returned.
Thm_C8 ==
    Answered =>
        LET n == Len(randomQuestions)
        IN  /\ Len(response) = n + Len(customCheckpoints)
            /\ SubSeq(response, 1, n) = generated
            /\ Len(generatedCoords) = n
            /\ \A i \in 1..n :
                  /\ ~response[i].isCustom
                  /\ generatedCoords[i] = [lat |-> response[i].lat, lng |-> response[i].lng]
            /\ \A k \in DOMAIN customCheckpoints :
                  LET row == customCheckpoints[k]
                      q == getQuestion(row.questionId)
                  IN  response[n + k] =
                        [id |-> q.id, lat |-> row.lat, lng |-> row.lng,
                         question |-> q.question, options |-> q.options,
                         points |-> q.points, collected |-> FALSE,
                         isCustom |-> TRUE, isRoving |-> FALSE]

\* a custom checkpoint less than 7 m from a checkpoint generated within budget
Wit_C8 ==
    /\ Answered
    /\ \E i, k \in DOMAIN response :
          /\ ~response[i].isCustom /\ (i - 1) \notin spent
          /\ response[k].isCustom
          /\ Between(response[i], response[k]) < 7

(***************************************************************************)
(* POST /api/game/verify (routes.ts 118-147).                              *)
(***************************************************************************)
\* String.prototype.toLowerCase on the strings of the model
LowerTable ==
    << <<"Au", "au">>, <<"AU", "au">>, <<"Ag", "ag">>, <<"Mars", "mars">>,
       <<"MARS", "mars">>, <<"Venus", "venus">>, <<"Mitochondria", "mitochondria">>,
       <<"Nucleus", "nucleus">>, <<"Carbon Dioxide", "carbon dioxide">>,
       <<"Oxygen", "oxygen">> >>

toLowerCase(str) ==
    IF \E i \in DOMAIN LowerTable : LowerTable[i][1] = str
    THEN LowerTable[CHOOSE i \in DOMAIN LowerTable : LowerTable[i][1] = str][2]
    ELSE str

\* routes.ts 121-137: the answer to {questionId, answer}
VerifyAnswer(questionId, answer) ==
    LET question == getQuestion(questionId)
    IN  IF question = NoQuestion
        THEN [status |-> 404, correct |-> FALSE, points |-> 0]
        ELSE LET isCorrect == toLowerCase(question.answer) = toLowerCase(answer)
             IN  [status |-> 200, correct |-> isCorrect,
                  points |-> IF isCorrect THEN question.points ELSE 0]

\* routes.ts 129-131 with storage.addPoints: the points the request adds to total_points
PointsAdded(questionId, answer) ==
    LET question == getQuestion(questionId)
    IN  IF question # NoQuestion
           /\ toLowerCase(question.answer) = toLowerCase(answer)
        THEN question.points
        ELSE 0

(***************************************************************************)
(* The client: Game (the checkpoint list, the score, the presented list)   *)
(* and the taps of ARView.                                                 *)
(***************************************************************************)
MaxVerifies == 1        \* verify requests sent in a hunt
MaxHunts == 1           \* hunts started in a behaviour
MaxInFlight == 1        \* verify requests awaiting their answer
MaxTapTimers == 1       \* pending 600 ms timers of handleTap

\* mutant: no deduplication
NotDeduplicated(cps) == cps

RECURSIVE uniqueCheckpoints(_)
\* Game 435-439: uniqueCheckpointsMap.set(cp.id, cp) for every checkpoint in turn,
\* then its values: a later checkpoint of an id takes the place of the earlier one
uniqueCheckpoints(cps) ==
    IF cps = <<>> THEN <<>>
    ELSE LET map == uniqueCheckpoints(SubSeq(cps, 1, Len(cps) - 1))
             cp == cps[Len(cps)]
         IN  IF \E k \in DOMAIN map : map[k].id = cp.id
             THEN [map EXCEPT ![CHOOSE k \in DOMAIN map : map[k].id = cp.id] = cp]
             ELSE Append(map, cp)

\* mutant: the collected checkpoints are not sorted to the bottom
CompareByDistanceOnly(a, b) == a.distance - b.distance

\* Game 447-452: the comparator
Compare(a, b) ==
    IF a.collected /\ ~b.collected THEN 1
    ELSE IF ~a.collected /\ b.collected THEN -1
    ELSE a.distance - b.distance

\* Array.prototype.sort: a stable sort by the comparator
Insert(sorted, x) ==
    LET before == {i \in DOMAIN sorted : Compare(x, sorted[i]) < 0}
        at == IF before = {} THEN Len(sorted) + 1
              ELSE CHOOSE i \in before : \A j \in before : i <= j
    IN  SubSeq(sorted, 1, at - 1) \o <<x>> \o SubSeq(sorted, at, Len(sorted))

RECURSIVE Sort(_)
Sort(seq) ==
    IF seq = <<>> THEN <<>>
    ELSE Insert(Sort(SubSeq(seq, 1, Len(seq) - 1)), seq[Len(seq)])

\* Game 441-446: { ...cp, distance: dist }
WithDistance(pLat, pLng, cp) ==
    [distance |-> getDistance(pLat, pLng, cp.lat, cp.lng)] @@ cp

\* Game 431-453: the derived list
SortedCheckpoints(pLat, pLng, cps) ==
    IF pLat = 0 \/ pLng = 0 \/ Len(cps) = 0 THEN <<>>
    ELSE LET unique == uniqueCheckpoints(cps)
         IN  Sort([k \in DOMAIN unique |-> WithDistance(pLat, pLng, unique[k])])

sortedCheckpoints == SortedCheckpoints(lat, lng, checkpoints)

\* Game 537-691: the screen is the AR view with the question dialog
ARShown == lat # 0 /\ lng # 0 /\ gameMode = "ar"

(***************************************************************************)
(* ARView.  A roving tick moves a checkpoint by less than one unit of the  *)
(* model, so ARView's copy of the list keeps its positions in fine units   *)
(* of 1/Fine of it (1/2220000 degree, about 5 cm): the player stands at    *)
(* <<Fine * lat, Fine * lng>>.  drift = 0.00001 degree is 22.2 fine units  *)
(* and (Math.random() - 0.5) * drift lies in [-11.1, 11.1).                *)
(***************************************************************************)
Fine == 20

\* geolib getDistance on fine units: the n with
\* (2n-1)^2 * 174 * Fine^2 <= 4 * 175 * d2 < (2n+1)^2 * 174 * Fine^2, the left
\* side being a whole number: (2n-1)^2 <= (7 * d2) \div (174 * Fine^2 / 100)
RECURSIVE FineRoot(_, _, _)
FineRoot(d2, lo, hi) ==
    IF lo = hi THEN lo
    ELSE LET mid == (lo + hi + 1) \div 2
         IN  IF (2 * mid - 1) * (2 * mid - 1)
                    <= (7 * d2) \div ((174 * Fine * Fine) \div 100)
             THEN FineRoot(d2, mid, hi)
             ELSE FineRoot(d2, lo, mid - 1)

\* ARView 149: getDistance({userLat, userLng}, {cp.lat, cp.lng})
arDistance(pLat, pLng, cp) ==
    LET dLat == Fine * pLat - cp.lat
        dLng == Fine * pLng - cp.lng
        d2 == dLat * dLat + dLng * dLng
    IN  IF d2 = 0 THEN 0 ELSE FineRoot(d2, 1, 1500)

\* the prop initialCheckpoints as ARView holds it
ToFine(cps) ==
    [k \in DOMAIN cps |-> [cps[k] EXCEPT !.lat = Fine * @, !.lng = Fine * @]]

\* ARView 39, 52-54: the state while the view is mounted (Game 671-681), set from
\* the prop at mount and whenever the prop changes
ARViewState(pLat, pLng, cps, mode) ==
    IF mode = "ar" /\ pLat # 0 /\ pLng # 0
    THEN ToFine(SortedCheckpoints(pLat, pLng, cps))
    ELSE <<>>

\* positions the geolocation watch reports
PlayerPositions ==
    { <<Center.lat, Center.lng>>, <<Center.lat + 10, Center.lng + 3>>, <<0, Center.lng>> }

\* final positions of a batch: any candidate can end a placement loop
Layouts ==
    { << <<8, 5>>, <<7, 0>>, <<7, 0>>, <<-100, 0>>, <<0, 100>> >> }

\* the answers of POST /api/game/generate to {lat, lng, radius, count}
GenerateResponses(cLat, cLng, radius, count) ==
    UNION { { [i \in DOMAIN sample |->
                 GeneratedCheckpoint(sample[i], i - 1, count,
                                     cLat + lay[i][1], cLng + lay[i][2])]
                \o MapCustom(customCheckpoints) :
              lay \in {l \in Layouts : \A i \in DOMAIN sample : CanDraw(l[i], radius)} } :
            sample \in getRandomQuestions(count + getSettings(settings).rovingCount) }

\* Game 456-473: handleStartMission and the onSuccess of the mutation; ARView
\* is mounted on the new list
StartMission(maxHunts) ==
    /\ gameMode = "menu"
    /\ hunts < maxHunts
    /\ hunts' = hunts + 1
    /\ verifies' = 0
    /\ lat # 0 /\ lng # 0
    /\ LET count == getSettings(settings).checkpointCount
           radius == getSettings(settings).radius
       IN  \E data \in GenerateResponses(lat, lng, radius, count) :
               /\ checkpoints' = data
               /\ arCheckpoints' = ARViewState(lat, lng, data, "ar")
    /\ gameMode' = "ar"
    /\ score' = 0
    /\ timeRemaining' = getSettings(settings).timeLimit * 60
    /\ UNCHANGED <<lat, lng, activeQuestion, gameOver, tapTimers, inflight>>
    /\ UNCHANGED <<serverVars, genVars, viewVars, apiVars, reqVars>>

handleStartMission == StartMission(MaxHunts)

\* useGeolocation: a new position; the derived list is recomputed and ARView
\* takes it over
PositionUpdate(p) ==
    /\ <<lat, lng>> # p
    /\ lat' = p[1]
    /\ lng' = p[2]
    /\ arCheckpoints' = ARViewState(p[1], p[2], checkpoints, gameMode)
    /\ UNCHANGED <<checkpoints, score, gameMode, activeQuestion, timeRemaining,
                   gameOver, tapTimers, inflight, verifies, hunts>>
    /\ UNCHANGED <<serverVars, genVars, viewVars, apiVars, reqVars>>

\* ARView 59: drift = 0.00001 degree, in tenths of a fine unit
drift == 222

\* (Math.random() - 0.5) * drift, in fine units: the values drawn in the model
Draws == {x \in {0 - 11, 11} : 20 * x >= 0 - drift /\ 20 * x < drift}

MaxDrift == 11          \* how far the ticks carry a checkpoint from where it was set

\* mutant: the tick moves the collected roving checkpoints as well
RovingStepCollected(cps, d) ==
    [k \in DOMAIN cps |->
        IF ~cps[k].isRoving THEN cps[k]
        ELSE [cps[k] EXCEPT !.lat = @ + d[k][1], !.lng = @ + d[k][2]]]

\* ARView 56-67: one tick of the roving interval; d gives every roving checkpoint
\* the two draws (Math.random() - 0.5) * drift it uses when it is not collected
RovingStep(cps, d) ==
    [k \in DOMAIN cps |->
        IF ~cps[k].isRoving \/ cps[k].collected THEN cps[k]
        ELSE [cps[k] EXCEPT !.lat = @ + d[k][1], !.lng = @ + d[k][2]]]

Abs(x) == IF x < 0 THEN 0 - x ELSE x

\* ARView 56-67: setInterval(..., 2000) while the view is mounted
RovingTick ==
    /\ ARShown
    /\ \E d \in [{k \in DOMAIN arCheckpoints : arCheckpoints[k].isRoving}
                    -> Draws \X Draws] :
          /\ arCheckpoints' = RovingStep(arCheckpoints, d)
          /\ \A k \in DOMAIN d :
                \E j \in DOMAIN checkpoints :
                    /\ checkpoints[j].id = arCheckpoints[k].id
                    /\ Abs(arCheckpoints[k].lat + d[k][1] - Fine * checkpoints[j].lat)
                           <= MaxDrift
                    /\ Abs(arCheckpoints[k].lng + d[k][2] - Fine * checkpoints[j].lng)
                           <= MaxDrift
    /\ UNCHANGED <<lat, lng, checkpoints, score, gameMode, activeQuestion, timeRemaining,
                   gameOver, tapTimers, inflight, verifies, hunts>>
    /\ UNCHANGED <<serverVars, genVars, viewVars, apiVars, reqVars>>

\* mutant: the gate lets a checkpoint at exactly 20 m through
TapOpensAtTwenty(pLat, pLng, cp) ==
    arDistance(pLat, pLng, cp) <= 20 /\ ~cp.collected

\* ARView 179, 133: pos.distance < 20 && handleTap(cp), which returns at once on a
\* collected checkpoint
TapOpens(pLat, pLng, cp) ==
    arDistance(pLat, pLng, cp) < 20 /\ ~cp.collected

\* ARView 157, 175-179, 132-139: a tap on the i-th checkpoint of the view's list,
\* which is drawn when it is nearby
ARTap(i) ==
    /\ ARShown
    /\ Len(tapTimers) < MaxTapTimers
    /\ i \in DOMAIN arCheckpoints
    /\ arDistance(lat, lng, arCheckpoints[i]) < 100
    /\ tapTimers' = IF TapOpens(lat, lng, arCheckpoints[i])
                    THEN Append(tapTimers, arCheckpoints[i])
                    ELSE tapTimers
    /\ UNCHANGED <<lat, lng, checkpoints, arCheckpoints, score, gameMode, activeQuestion,
                   timeRemaining, gameOver, inflight, verifies, hunts>>
    /\ UNCHANGED <<serverVars, genVars, viewVars, apiVars, reqVars>>

\* ARView 135-138 and Game 492-494: the timer calls onCheckpointTap
TapTimer ==
    /\ tapTimers # <<>>
    /\ activeQuestion' = Head(tapTimers)
    /\ tapTimers' = Tail(tapTimers)
    /\ UNCHANGED <<lat, lng, checkpoints, arCheckpoints, score, gameMode, timeRemaining,
                   gameOver, inflight, verifies, hunts>>
    /\ UNCHANGED <<serverVars, genVars, viewVars, apiVars, reqVars>>

\* Game 685: onOpenChange(false)
CloseDialog ==
    /\ ARShown
    /\ activeQuestion # NoQuestion
    /\ activeQuestion' = NoQuestion
    /\ UNCHANGED <<lat, lng, checkpoints, arCheckpoints, score, gameMode, timeRemaining,
                   gameOver, tapTimers, inflight, verifies, hunts>>
    /\ UNCHANGED <<serverVars, genVars, viewVars, apiVars, reqVars>>

\* Game 680: onClose; ARView is unmounted
CloseAR ==
    /\ ARShown
    /\ gameMode' = "menu"
    /\ arCheckpoints' = <<>>
    /\ UNCHANGED <<lat, lng, checkpoints, score, activeQuestion, timeRemaining, gameOver,
                   tapTimers, inflight, verifies, hunts>>
    /\ UNCHANGED <<serverVars, genVars, viewVars, apiVars, reqVars>>

\* answers the player gives to a question
AnswersTo(questionId) ==
    LET q == getQuestion(questionId)
    IN  {q.answer, q.options[1], q.options[2], toLowerCase(q.answer)}

\* Game 515-522 and routes.ts 118-137: handleVerify up to its await, and the
\* server's handling of the request
SubmitAnswer(answer, maxVerifies) ==
    /\ ARShown
    /\ activeQuestion # NoQuestion
    /\ verifies < maxVerifies
    /\ Len(inflight) < MaxInFlight
    /\ userStats' = IF PointsAdded(activeQuestion.id, answer) > 0
                    THEN AddPoints(userStats, today,
                                   PointsAdded(activeQuestion.id, answer))
                    ELSE userStats
    /\ inflight' = Append(inflight,
           [id |-> activeQuestion.id, result |-> VerifyAnswer(activeQuestion.id, answer)])
    /\ verifies' = verifies + 1
    /\ UNCHANGED <<settings, customCheckpoints, today>>
    /\ UNCHANGED <<lat, lng, checkpoints, arCheckpoints, score, gameMode, activeQuestion,
                   timeRemaining, gameOver, tapTimers, hunts>>
    /\ UNCHANGED <<genVars, viewVars, apiVars, reqVars>>

VerifyRequest(answer) == SubmitAnswer(answer, MaxVerifies)

\* Game 518-534: the request fails (no answer, or an answer that is not 2xx):
\* mutateAsync rejects and the catch returns false
VerifyRequestFails ==
    /\ ARShown
    /\ activeQuestion # NoQuestion
    /\ verifies < MaxVerifies
    /\ Len(inflight) < MaxInFlight
    /\ inflight' = Append(inflight,
           [id |-> activeQuestion.id,
            result |-> [status |-> 500, correct |-> FALSE, points |-> 0]])
    /\ verifies' = verifies + 1
    /\ UNCHANGED <<lat, lng, checkpoints, arCheckpoints, score, gameMode, activeQuestion,
                   timeRemaining, gameOver, tapTimers, hunts>>
    /\ UNCHANGED <<serverVars, genVars, viewVars, apiVars, reqVars>>

RemoveAt(seq, k) == SubSeq(seq, 1, k - 1) \o SubSeq(seq, k + 1, Len(seq))

\* mutant: a correct answer marks every checkpoint of the list
CollectAll(cps, id) ==
    [i \in DOMAIN cps |-> [cps[i] EXCEPT !.collected = TRUE]]

\* Game 526-528: the list after a correct answer to the question of the given id
Collect(cps, id) ==
    [i \in DOMAIN cps |->
        IF cps[i].id = id THEN [cps[i] EXCEPT !.collected = TRUE] ELSE cps[i]]

\* Game 508: the condition of the completion effect
HuntComplete(cps, over) ==
    Len(cps) > 0 /\ (\A i \in DOMAIN cps : cps[i].collected) /\ ~over

\* Game 524-534, 507-512: handleVerify after its await; on a correct answer the
\* list changes, ARView takes the derived list over and the completion effect
\* runs (with routes.ts 181-217, the handling of its request)
VerifyResponse(k) ==
    /\ k \in DOMAIN inflight
    /\ LET call == inflight[k]
       IN  IF call.result.status = 200 /\ call.result.correct
           THEN /\ score' = score + call.result.points
                /\ checkpoints' = Collect(checkpoints, call.id)
                /\ arCheckpoints' =
                     ARViewState(lat, lng, Collect(checkpoints, call.id), gameMode)
                /\ IF HuntComplete(Collect(checkpoints, call.id), gameOver)
                   THEN /\ userStats' = CompleteHunt(userStats, today)
                        /\ gameOver' = TRUE
                   ELSE UNCHANGED <<userStats, gameOver>>
           ELSE UNCHANGED <<score, checkpoints, arCheckpoints, userStats, gameOver>>
    /\ inflight' = RemoveAt(inflight, k)
    /\ UNCHANGED <<lat, lng, gameMode, activeQuestion, timeRemaining, tapTimers,
                   verifies, hunts>>
    /\ UNCHANGED <<settings, customCheckpoints, today, genVars, viewVars, apiVars,
                   reqVars>>

NextGame ==
    \/ handleStartMission
    \/ \E p \in PlayerPositions : PositionUpdate(p)
    \/ \E i \in 1..(Len(Questions) + MaxCustom) : ARTap(i)
    \/ TapTimer
    \/ CloseDialog
    \/ CloseAR
    \/ \E id \in QuestionIds : \E answer \in AnswersTo(id) :
          activeQuestion.id = id /\ VerifyRequest(answer)
    \/ \E k \in 1..MaxInFlight : VerifyResponse(k)

SpecGame == Init /\ [][NextGame]_vars

(***************************************************************************)
(* Claims about the client and /api/game/verify (SpecGame).                *)
(***************************************************************************)
\* the player's position is known: otherwise Game shows "Location Required"
\* (Game 546) and presents no list
PositionKnown == lat # 0 /\ lng # 0

\* C6: a correct answer to a roving checkpoint adds twice the question's base
\* points to UserStats.totalPoints (when the request is handled) and to the session
\* score (when handleVerify resumes).
CX_C6 ==
    [][/\ ( /\ verifies' = verifies + 1
            /\ activeQuestion.isRoving
            /\ inflight'[Len(inflight')].result.correct )
          => TotalPoints(userStats') =
                 TotalPoints(userStats) + 2 * getQuestion(activeQuestion.id).points
       /\ \A k \in DOMAIN inflight :
            ( /\ inflight' = RemoveAt(inflight, k)
              /\ inflight[k].result.correct
              /\ \A i \in DOMAIN checkpoints :
                    checkpoints[i].id = inflight[k].id => checkpoints[i].isRoving )
            => score' = score + 2 * getQuestion(inflight[k].id).points]_vars

\* C9: the presented list holds every id of the client's list exactly once, the
\* survivor being one of the client's checkpoints of that id (with its distance).
Thm_C9 ==
    PositionKnown =>
        LET shown == sortedCheckpoints
        IN  /\ \A i \in DOMAIN checkpoints :
                  Cardinality({k \in DOMAIN shown : shown[k].id = checkpoints[i].id}) = 1
            /\ \A k \in DOMAIN shown :
                  \E i \in DOMAIN checkpoints :
                      shown[k] = WithDistance(lat, lng, checkpoints[i])

\* the list is shown and holds two checkpoints of one id at different places
Wit_C9 ==
    /\ ARShown
    /\ \E i, j \in DOMAIN checkpoints :
          /\ i < j
          /\ checkpoints[i].id = checkpoints[j].id
          /\ checkpoints[i].lat # checkpoints[j].lat
    /\ Len(sortedCheckpoints) = Len(checkpoints) - 1

\* C10: in the presented list no collected checkpoint precedes an uncollected one,
\* and among the uncollected and among the collected the distances from the player
\* ascend.
Thm_C10 ==
    PositionKnown =>
        LET shown == sortedCheckpoints
        IN  \A i, j \in DOMAIN shown :
                i < j =>
                  /\ shown[i].collected => shown[j].collected
                  /\ shown[i].collected = shown[j].collected
                        => /\ getDistance(lat, lng, shown[i].lat, shown[i].lng)
                                <= getDistance(lat, lng, shown[j].lat, shown[j].lng)
                           /\ shown[i].distance <= shown[j].distance

\* a collected checkpoint nearer than two uncollected ones at different distances
Wit_C10 ==
    /\ ARShown
    /\ LET shown == sortedCheckpoints
       IN  \E c, u, v \in DOMAIN shown :
              /\ shown[c].collected /\ ~shown[u].collected /\ ~shown[v].collected
              /\ shown[c].distance < shown[u].distance
              /\ shown[u].distance < shown[v].distance

(***************************************************************************)
(* The AR view in play: the player walks, taps, answers, and the roving    *)
(* checkpoints drift (SpecAR).                                             *)
(***************************************************************************)
\* positions of the player: where the hunt starts, and 27 units north of it
ARPositions == { <<Center.lat, Center.lng>>, <<Center.lat + 27, Center.lng>> }

NextAR ==
    \/ handleStartMission
    \/ \E p \in ARPositions : PositionUpdate(p)
    \/ RovingTick
    \/ \E i \in 1..(Len(Questions) + MaxCustom) : ARTap(i)
    \/ TapTimer
    \/ \E id \in QuestionIds : \E answer \in AnswersTo(id) :
          activeQuestion.id = id /\ VerifyRequest(answer)
    \/ VerifyRequestFails
    \/ \E k \in 1..MaxInFlight : VerifyResponse(k)

SpecAR == Init /\ [][NextAR]_vars

\* C11: a tap starts the timer that opens a question only on a checkpoint of the
\* view that is, when tapped, less than 20 m from the player and not collected (at
\* 20 m or more no timer is started), and a question is opened by such a timer only.
Thm_C11 ==
    [][/\ tapTimers' # tapTimers /\ Len(tapTimers') > Len(tapTimers)
          => LET cp == tapTimers'[Len(tapTimers')]
             IN  /\ \E i \in DOMAIN arCheckpoints : arCheckpoints[i] = cp
                 /\ arDistance(lat, lng, cp) < 20
                 /\ ~cp.collected
       /\ activeQuestion' # activeQuestion /\ activeQuestion' # NoQuestion
          => tapTimers # <<>> /\ activeQuestion' = Head(tapTimers)]_vars

\* a question opened by a tap, the player having walked 20 m or more away since
Wit_C11 ==
    /\ ARShown
    /\ activeQuestion # NoQuestion
    /\ arDistance(lat, lng, activeQuestion) >= 20

\* C13: a roving tick (the view's list changes, the props do not) keeps the length
\* and order of the list, leaves every collected or non-roving checkpoint as it
\* was, and changes of a roving uncollected one nothing but lat and lng, each by at
\* most drift / 2 (0.000005 degree, 11.1 fine units).
Thm_C13 ==
    [][(arCheckpoints' # arCheckpoints /\ UNCHANGED <<lat, lng, checkpoints, gameMode>>)
         => /\ Len(arCheckpoints') = Len(arCheckpoints)
            /\ \A k \in DOMAIN arCheckpoints :
                 LET old == arCheckpoints[k]
                     new == arCheckpoints'[k]
                 IN  IF old.collected \/ ~old.isRoving
                     THEN new = old
                     ELSE /\ new = [old EXCEPT !.lat = new.lat, !.lng = new.lng]
                          /\ 20 * Abs(new.lat - old.lat) <= drift
                          /\ 20 * Abs(new.lng - old.lng) <= drift]_vars

\* a roving checkpoint that has drifted from where the list put it, next to a
\* collected checkpoint
Wit_C13 ==
    /\ ARShown
    /\ \E k, m \in DOMAIN arCheckpoints :
          /\ arCheckpoints[k].isRoving /\ ~arCheckpoints[k].collected
          /\ \E j \in DOMAIN checkpoints :
                /\ checkpoints[j].id = arCheckpoints[k].id
                /\ arCheckpoints[k].lat # Fine * checkpoints[j].lat
                /\ arCheckpoints[k].lng # Fine * checkpoints[j].lng
          /\ arCheckpoints[m].collected

\* the step is the arrival of a correct answer to the question of the given id
CorrectAnswerTo(id) ==
    \E k \in DOMAIN inflight :
        /\ inflight' = RemoveAt(inflight, k)
        /\ inflight[k].id = id
        /\ inflight[k].result.status = 200
        /\ inflight[k].result.correct

\* C14: within a hunt the collected flag of a checkpoint, in the client's list and
\* in the AR view's copy, changes only from false to true and only in the step in
\* which a correct answer to its question arrives: not on an incorrect answer, a
\* failed request, a roving tick or a new position.
Thm_C14 ==
    [][hunts' = hunts =>
         /\ \A i \in DOMAIN checkpoints :
               checkpoints'[i].collected # checkpoints[i].collected
                 => ~checkpoints[i].collected /\ CorrectAnswerTo(checkpoints[i].id)
         /\ \A k \in DOMAIN arCheckpoints : \A m \in DOMAIN arCheckpoints' :
               ( /\ arCheckpoints'[m].id = arCheckpoints[k].id
                 /\ arCheckpoints'[m].collected # arCheckpoints[k].collected )
                 => ~arCheckpoints[k].collected /\ CorrectAnswerTo(arCheckpoints[k].id)]_vars

\* a collected checkpoint among uncollected ones, the roving one having drifted
Wit_C14 ==
    /\ ARShown
    /\ inflight = <<>>
    /\ \E i, j \in DOMAIN checkpoints :
          checkpoints[i].collected /\ ~checkpoints[j].collected
    /\ \E k, m \in DOMAIN arCheckpoints :
          /\ arCheckpoints[k].collected
          /\ arCheckpoints[m].isRoving /\ ~arCheckpoints[m].collected
          /\ \A j \in DOMAIN checkpoints :
                arCheckpoints[m].lat # Fine * checkpoints[j].lat

(***************************************************************************)
(* ARView: where a checkpoint is drawn (SpecBearing).  Angles are whole    *)
(* degrees.                                                                *)
(***************************************************************************)
RECURSIVE WhileAbove(_)
\* ARView 144: while (relativeBearing > 180) relativeBearing -= 360
WhileAbove(x) == IF x > 180 THEN WhileAbove(x - 360) ELSE x

RECURSIVE WhileBelow(_)
\* ARView 145: while (relativeBearing < -180) relativeBearing += 360
WhileBelow(x) == IF x < 0 - 180 THEN WhileBelow(x + 360) ELSE x

\* ARView 141-145: getCheckpointScreenPosition, the relative bearing
getCheckpointScreenPosition(b, heading) == WhileBelow(WhileAbove(b - heading))

\* geolib getRhumbLineBearing: degrees in [0, 360], those drawn in the model
Bearings == {0, 1, 27, 29, 30, 31, 45, 90, 179, 180, 181, 270, 330, 331, 333, 359, 360}

\* the deviceorientation events of the model: alpha in [0, 360), and
\* webkitCompassHeading in [0, 360) where the browser has it (Undefined elsewhere)
Undefined == 0 - 1
OrientationEvents ==
    {[alpha |-> a, webkitCompassHeading |-> Undefined] : a \in {0, 1, 90, 180, 181, 359}}
    \cup {[alpha |-> 0, webkitCompassHeading |-> w] : w \in {0, 179, 180, 270}}

\* ARView 146-154: the rest of getCheckpointScreenPosition.  screenX =
\* 50 + (relativeBearing / 60) * 100 is a whole number of thirds of a percent:
\* x is counted in thirds, 3 * screenX = 150 + 5 * relativeBearing
fov == 60

\* mutant: the edge of the field of view is visible
screenPositionEdge(rb, dist) ==
    LET screenX == 150 + (rb * 300) \div fov
    IN  [x |-> IF screenX < 15 THEN 15 ELSE IF screenX > 285 THEN 285 ELSE screenX,
         isVisible |-> 2 * Abs(rb) <= fov,
         distance |-> dist]

screenPosition(rb, dist) ==
    LET screenX == 150 + (rb * 300) \div fov
    IN  [x |-> IF screenX < 15 THEN 15 ELSE IF screenX > 285 THEN 285 ELSE screenX,
         isVisible |-> 2 * Abs(rb) < fov,
         distance |-> dist]

\* ARView 157, 175-179: the render of a checkpoint: nothing when it is not nearby
\* or not visible, else an element at left: x%
Render(rb, dist) ==
    LET pos == screenPosition(rb, dist)
    IN  IF dist < 100 /\ pos.isVisible
        THEN [drawn |-> TRUE, x |-> pos.x]
        ELSE [drawn |-> FALSE, x |-> 0]

\* ARView 107-118: handleOrientation; the view is drawn again
handleOrientation(event) ==
    /\ LET heading == IF event.webkitCompassHeading # Undefined
                      THEN event.webkitCompassHeading
                      ELSE 360 - event.alpha
       IN  /\ compassHeading' = heading
           /\ relativeBearing' = getCheckpointScreenPosition(bearing, heading)
           /\ screen' = Render(getCheckpointScreenPosition(bearing, heading), cpDistance)
    /\ UNCHANGED <<bearing, cpDistance>>
    /\ UNCHANGED <<serverVars, genVars, clientVars, apiVars, reqVars>>

\* the player or the checkpoint moves: the view is drawn again with the new bearing
BearingChange(b) ==
    /\ bearing # b
    /\ bearing' = b
    /\ relativeBearing' = getCheckpointScreenPosition(b, compassHeading)
    /\ screen' = Render(getCheckpointScreenPosition(b, compassHeading), cpDistance)
    /\ UNCHANGED <<compassHeading, cpDistance>>
    /\ UNCHANGED <<serverVars, genVars, clientVars, apiVars, reqVars>>

\* getDistance(player, checkpoint) in meters, those drawn in the model
Distances == {0, 19, 20, 99, 100, 101}

\* the player or the checkpoint moves along the bearing: the view is drawn again
\* with the new distance
DistanceChange(d) ==
    /\ cpDistance # d
    /\ cpDistance' = d
    /\ screen' = Render(relativeBearing, d)
    /\ UNCHANGED <<compassHeading, bearing, relativeBearing>>
    /\ UNCHANGED <<serverVars, genVars, clientVars, apiVars, reqVars>>

NextBearing ==
    \/ \E event \in OrientationEvents : handleOrientation(event)
    \/ \E b \in Bearings : BearingChange(b)
    \/ \E d \in Distances : DistanceChange(d)

SpecBearing == Init /\ [][NextBearing]_vars

\* C12: for every bearing and heading in [0, 360] the relative bearing is
\* bearing - heading modulo 360 and lies in (-180, 180]: it is never -180.
CX_C12 ==
    /\ (relativeBearing - (bearing - compassHeading)) % 360 = 0
    /\ 0 - 180 < relativeBearing
    /\ relativeBearing <= 180

(***************************************************************************)
(* The requests that read and write user_stats, handled step by step: a    *)
(* handler runs from one await to the next, and the handlers of several    *)
(* requests take turns at their awaits (SpecStats).                        *)
(***************************************************************************)
MaxRequests == 2        \* requests on user_stats in a behaviour
MaxDays == 1            \* midnights in a behaviour

\* the snapshot of a handler that has not read user_stats
NoStats == NewStats(0)

\* a points history of n days, the last of them the given day, 10 points a day
HistoryOf(n, lastDay) ==
    [k \in 1..n |-> [date |-> lastDay - n + k, points |-> 10]]

\* user_stats when the first request arrives: no row yet, or the row of a player
\* who scored on each of the last 29 or 30 days
StatsTables ==
    { <<>> } \cup
    { <<[NewStats(1) EXCEPT !.totalPoints = 10 * n,
                            !.pointsHistory = HistoryOf(n, day),
                            !.lastActivityDate = day]>> :
        n \in {HistoryCap - 1, HistoryCap}, day \in {FirstDay - 1} }

\* the requests of the model
StatsRequests ==
    { [kind |-> "verify", questionId |-> 1, answer |-> "au", verified |-> FALSE],
      [kind |-> "verify", questionId |-> 3, answer |-> "Mitochondria", verified |-> FALSE],
      [kind |-> "verify", questionId |-> 3, answer |-> "Nucleus", verified |-> FALSE],
      [kind |-> "verify", questionId |-> 9, answer |-> "Au", verified |-> FALSE],
      [kind |-> "photo", questionId |-> 0, answer |-> "", verified |-> TRUE],
      [kind |-> "photo", questionId |-> 0, answer |-> "", verified |-> FALSE],
      [kind |-> "stats", questionId |-> 0, answer |-> "", verified |-> FALSE],
      [kind |-> "hunt", questionId |-> 0, answer |-> "", verified |-> FALSE] }

\* Express calls the handler of a request, which runs to its first await
RequestArrives(r) ==
    /\ Len(handlers) < MaxRequests
    /\ handlers' = Append(handlers,
          [kind |-> r.kind, questionId |-> r.questionId, answer |-> r.answer,
           verified |-> r.verified,
           pc |-> CASE r.kind = "verify" -> "getQuestion"
                    [] r.kind = "photo" -> "vision"
                    [] OTHER -> "select",
           points |-> 0, stats |-> NoStats, target |-> 0, day |-> NoDate,
           status |-> 0, correct |-> FALSE, reported |-> 0])
    /\ UNCHANGED <<awarded, serverVars, genVars, clientVars, viewVars, reqVars>>

\* routes.ts 121-137: POST /api/game/verify after storage.getQuestion
GetQuestion(h) ==
    /\ h \in DOMAIN handlers
    /\ handlers[h].pc = "getQuestion"
    /\ LET hd == handlers[h]
           result == VerifyAnswer(hd.questionId, hd.answer)
       IN  handlers' =
             [handlers EXCEPT ![h] =
                IF result.status = 200 /\ result.correct
                THEN [hd EXCEPT !.pc = "select", !.correct = TRUE,
                                !.points = getQuestion(hd.questionId).points]
                ELSE [hd EXCEPT !.pc = "done", !.status = result.status,
                                !.correct = FALSE, !.reported = 0]]
    /\ UNCHANGED <<awarded, serverVars, genVars, clientVars, viewVars, reqVars>>

\* routes.ts 231-271: POST /api/verify-photo after the vision answer
Vision(h) ==
    /\ h \in DOMAIN handlers
    /\ handlers[h].pc = "vision"
    /\ handlers' =
          [handlers EXCEPT ![h] =
             IF @.verified
             THEN [@ EXCEPT !.pc = "select", !.correct = TRUE, !.points = 25]
             ELSE [@ EXCEPT !.pc = "done", !.status = 200, !.reported = 0]]
    /\ UNCHANGED <<awarded, serverVars, genVars, clientVars, viewVars, reqVars>>

\* the handler goes on with the row getUserStats returned: addPoints 112-123 and
\* complete-hunt 183-206 take the date, updateUserStats 102 takes the row's id
Resume(hd, row, first, day) ==
    IF first
    THEN [hd EXCEPT !.stats = row, !.day = day, !.target = row.id,
                    !.pc = CASE hd.kind = "stats" -> "done"
                             [] hd.kind = "hunt" -> "select2"
                             [] OTHER -> "update",
                    !.status = IF hd.kind = "stats" THEN 200 ELSE 0]
    ELSE [hd EXCEPT !.target = row.id, !.pc = "update"]

\* storage.getUserStats 87-88, 98: the select; with several rows the first of an
\* order the database does not fix
SelectStats(h) ==
    /\ h \in DOMAIN handlers
    /\ handlers[h].pc \in {"select", "select2"}
    /\ IF userStats = <<>>
       THEN handlers' = [handlers EXCEPT
               ![h].pc = IF @ = "select" THEN "insert" ELSE "insert2"]
       ELSE \E k \in DOMAIN userStats :
               handlers' = [handlers EXCEPT
                  ![h] = Resume(@, userStats[k], @.pc = "select", today)]
    /\ UNCHANGED <<awarded, serverVars, genVars, clientVars, viewVars, reqVars>>

\* storage.getUserStats 89-96: the insert of the row, and its return
InsertStats(h) ==
    /\ h \in DOMAIN handlers
    /\ handlers[h].pc \in {"insert", "insert2"}
    /\ LET row == NewStats(Len(userStats) + 1)
       IN  /\ userStats' = Append(userStats, row)
           /\ handlers' = [handlers EXCEPT
                 ![h] = Resume(@, row, @.pc = "insert", today)]
    /\ UNCHANGED <<awarded, settings, customCheckpoints, today>>
    /\ UNCHANGED <<genVars, clientVars, viewVars, reqVars>>

\* storage.addPoints 125-132 and updateUserStats 103-107: the update, and the
\* answer of the request (routes.ts 133, 216, 266)
UpdateStats(h) ==
    /\ h \in DOMAIN handlers
    /\ handlers[h].pc = "update"
    /\ LET hd == handlers[h]
           columns == IF hd.kind = "hunt" THEN HuntUpdate(hd.stats, hd.day)
                      ELSE PointsUpdate(hd.stats, hd.day, hd.points)
       IN  /\ userStats' = UpdateWhere(userStats, hd.target, columns)
           /\ handlers' = [handlers EXCEPT
                 ![h] = [hd EXCEPT !.pc = "done", !.status = 200,
                                   !.reported = hd.points]]
           /\ awarded' = awarded + hd.points
    /\ UNCHANGED <<settings, customCheckpoints, today>>
    /\ UNCHANGED <<genVars, clientVars, viewVars, reqVars>>

\* the date changes
Midnight ==
    /\ today < FirstDay + MaxDays
    /\ today' = today + 1
    /\ UNCHANGED <<settings, customCheckpoints, userStats>>
    /\ UNCHANGED <<genVars, clientVars, viewVars, apiVars, reqVars>>

InitStats ==
    /\ settings = <<>>
    /\ customCheckpoints = <<>>
    /\ userStats \in StatsTables
    /\ today = FirstDay
    /\ handlers = <<>>
    /\ awarded = TotalPoints(userStats)
    /\ InitGenerate /\ InitClient /\ InitView /\ InitRequests

NextStats ==
    \/ \E r \in StatsRequests : RequestArrives(r)
    \/ \E h \in 1..MaxRequests : GetQuestion(h)
    \/ \E h \in 1..MaxRequests : Vision(h)
    \/ \E h \in 1..MaxRequests : SelectStats(h)
    \/ \E h \in 1..MaxRequests : InsertStats(h)
    \/ \E h \in 1..MaxRequests : UpdateStats(h)
    \/ Midnight

SpecStats == InitStats /\ [][NextStats]_vars

\* the handler takes the step, and it is the update that ends an addPoints
AddPointsEnds(h) ==
    /\ handlers[h].kind \in {"verify", "photo"}
    /\ handlers[h].pc = "update"
    /\ handlers'[h].pc = "done"

\* every points history holds at most 30 entries, one per date, the oldest first
HistoryCapped ==
    \A k \in DOMAIN userStats :
        LET history == userStats[k].pointsHistory
        IN  /\ Len(history) <= 30
            /\ \A i, j \in DOMAIN history : i < j => history[i].date < history[j].date

\* an addPoints call that no other write came across (the row is as the call read
\* it) adds its points to the entry of its date when there is one, appends an
\* entry when there is none, and then, of 31 entries, drops the first
DropsOldest ==
    \A h \in DOMAIN handlers : \A k \in DOMAIN userStats :
        (AddPointsEnds(h) /\ userStats[k] = handlers[h].stats) =>
            LET old == userStats[k].pointsHistory
                new == userStats'[k].pointsHistory
                entry == [date |-> handlers[h].day, points |-> handlers[h].points]
            IN  IF \E i \in DOMAIN old : old[i].date = entry.date
                THEN /\ Len(new) = Len(old)
                     /\ \A i \in DOMAIN old :
                          new[i] = IF old[i].date = entry.date
                                   THEN [old[i] EXCEPT !.points = @ + entry.points]
                                   ELSE old[i]
                ELSE IF Len(old) < 30
                THEN new = Append(old, entry)
                ELSE new = Append(Tail(old), entry)

\* C15: pointsHistory holds at most 30 entries, at most one per date, and a call of
\* addPoints on a 31st date drops the oldest entry (the others are kept, the new
\* one is the last).
Thm_C15 == []HistoryCapped /\ [][DropsOldest]_vars

\* a history of 30 dates that two calls on two days have each added a date to
Wit_C15 ==
    \E k \in DOMAIN userStats :
        LET history == userStats[k].pointsHistory
        IN  /\ Len(history) = 30
            /\ history[30].date = FirstDay + 1
            /\ history[29].date = FirstDay
            /\ history[1].date = FirstDay - 28

\* the totalPoints of all the rows of a table together
RECURSIVE AllPoints(_)
AllPoints(rows) ==
    IF rows = <<>> THEN 0 ELSE Head(rows).totalPoints + AllPoints(Tail(rows))

\* C16: when every request has been answered, totalPoints is the sum of all the
\* points awarded, whatever the order in which the handlers took their steps
\* (counted over every row the table holds, so that a second row loses nothing).
CX_C16 ==
    (\A h \in DOMAIN handlers : handlers[h].pc = "done")
        => AllPoints(userStats) = awarded

\* C17: user_stats never holds more than one row, holds exactly one once a
\* getUserStats call has returned, and the call that creates the row returns zero
\* totals, streaks, hunts and freezes and an empty history.
CX_C17 ==
    /\ Len(userStats) <= 1
    /\ \A h \in DOMAIN handlers :
          handlers[h].stats # NoStats =>
              /\ Len(userStats) = 1
              /\ handlers[h].stats.id = 1
              /\ handlers[h].stats.totalPoints >= 0
    /\ \A k \in DOMAIN userStats :
          userStats[k].id > 1 =>
              /\ userStats[k].totalPoints = 0 /\ userStats[k].currentStreak = 0
              /\ userStats[k].longestStreak = 0 /\ userStats[k].huntsCompleted = 0
              /\ userStats[k].streakFreezes = 0 /\ userStats[k].pointsHistory = <<>>

\* strings that differ in the case of their letters only
CaseClasses ==
    { {"Au", "au", "AU", "aU"}, {"Mitochondria", "mitochondria", "MITOCHONDRIA"},
      {"Nucleus", "nucleus"}, {"Mars", "mars", "MARS"} }

SameIgnoringCase(a, b) == a = b \/ \E c \in CaseClasses : a \in c /\ b \in c

\* C20: POST /api/game/verify answers 404 to an unknown questionId; otherwise
\* correct iff the answer is the stored one ignoring case, with the question's
\* points when correct and 0 when not; a step of its handler changes user_stats
\* only for a correct answer, and the step that adds the points adds to
\* totalPoints (over every row of the table) exactly the points the response
\* reports.
CX_C20 ==
    [][\A h \in DOMAIN handlers :
         (handlers[h].kind = "verify" /\ handlers'[h] # handlers[h]) =>
            LET hd == handlers'[h]
                q == getQuestion(hd.questionId)
            IN  /\ hd.pc = "done" =>
                     IF q = NoQuestion THEN hd.status = 404
                     ELSE /\ hd.status = 200
                          /\ hd.correct <=> SameIgnoringCase(q.answer, hd.answer)
                          /\ hd.reported = IF hd.correct THEN q.points ELSE 0
                /\ userStats' # userStats =>
                     q # NoQuestion /\ SameIgnoringCase(q.answer, hd.answer)
                /\ (hd.pc = "done" /\ hd.correct) =>
                     AllPoints(userStats') = AllPoints(userStats) + hd.reported]_vars

(***************************************************************************)
(* A session of several hunts: the player finishes or leaves a hunt,       *)
(* closes the AR view and starts the next one, while the clock of the      *)
(* hunt runs (SpecHunt).                                                   *)
(***************************************************************************)
MaxSessionHunts == 2    \* hunts started in a session
MaxHuntVerifies == 2    \* verify requests sent in a hunt of a session

\* the admin made hunts of one checkpoint
HuntSettings == <<[timeLimit |-> 30, checkpointCount |-> 1, rovingCount |-> 0, radius |-> 10]>>

\* Game 476-489, the interval of the countdown effect: it fired so many times
Countdown(seconds) ==
    /\ gameMode = "ar" /\ timeRemaining # NoTime /\ ~gameOver
    /\ timeRemaining > 0
    /\ seconds \in 1..timeRemaining
    /\ timeRemaining' = timeRemaining - seconds
    /\ UNCHANGED <<lat, lng, checkpoints, arCheckpoints, score, gameMode, activeQuestion,
                   gameOver, tapTimers, inflight, verifies, hunts>>
    /\ UNCHANGED <<serverVars, genVars, viewVars, apiVars, reqVars>>

\* Game 476-482: the countdown effect finds no time left
TimeUp ==
    /\ gameMode = "ar" /\ timeRemaining # NoTime /\ ~gameOver
    /\ timeRemaining <= 0
    /\ gameOver' = TRUE
    /\ UNCHANGED <<lat, lng, checkpoints, arCheckpoints, score, gameMode, activeQuestion,
                   timeRemaining, tapTimers, inflight, verifies, hunts>>
    /\ UNCHANGED <<serverVars, genVars, viewVars, apiVars, reqVars>>

\* custom_checkpoints of the session: none, or one that carries question 1, which
\* the generated checkpoint may carry too
HuntCustom ==
    { <<>>, <<[id |-> 1, lat |-> Center.lat + 7, lng |-> Center.lng, questionId |-> 1]>> }

InitHunt ==
    /\ settings = HuntSettings
    /\ customCheckpoints \in HuntCustom
    /\ userStats = <<>>
    /\ today = FirstDay
    /\ InitGenerate /\ InitClient /\ InitView /\ InitApi /\ InitRequests

NextHunt ==
    \/ StartMission(MaxSessionHunts)
    \/ \E p \in ARPositions : PositionUpdate(p)
    \/ \E i \in 1..Len(Questions) : ARTap(i)
    \/ TapTimer
    \/ CloseDialog
    \/ CloseAR
    \/ \E id \in QuestionIds : \E answer \in AnswersTo(id) :
          activeQuestion.id = id /\ SubmitAnswer(answer, MaxHuntVerifies)
    \/ \E k \in 1..MaxInFlight : VerifyResponse(k)
    \/ Countdown(timeRemaining)
    \/ TimeUp

SpecHunt == InitHunt /\ [][NextHunt]_vars

AllCollected(cps) == Len(cps) > 0 /\ \A i \in DOMAIN cps : cps[i].collected

\* C18: the step in which all the checkpoints of a hunt become collected (while
\* the hunt's time has not run out) calls POST /api/stats/complete-hunt once:
\* huntsCompleted grows by 1 in it, in the first hunt of a session and in the later
\* ones; and huntsCompleted grows in no other step.
CX_C18 ==
    [][/\ (AllCollected(checkpoints') /\ ~AllCollected(checkpoints) /\ timeRemaining' > 0)
            => HuntsCompleted(userStats') = HuntsCompleted(userStats) + 1
       /\ HuntsCompleted(userStats') # HuntsCompleted(userStats)
            => (AllCollected(checkpoints') /\ ~AllCollected(checkpoints))]_vars

(***************************************************************************)
(* Several POST /api/game/generate requests in flight at once.  A handler  *)
(* waits at its three reads and then places its batch in one synchronous   *)
(* run (routes.ts 28-66 has no await), so the batches are placed one after *)
(* the other while further requests arrive; the reads are answered in the  *)
(* order of the requests (SpecRequests).                                   *)
(***************************************************************************)
MaxGenerates == 2       \* generate requests in a behaviour

RequestBodies ==
    { [has |-> {"lat", "lng", "radius", "count"},
       lat |-> Center.lat, lng |-> Center.lng, radius |-> 10, count |-> 1],
      [has |-> {"lat", "lng", "radius", "count"},
       lat |-> Center.lat + 3, lng |-> Center.lng, radius |-> 10, count |-> 0],
      [has |-> {"lng", "radius", "count"},
       lat |-> 0, lng |-> Center.lng, radius |-> 10, count |-> 1] }

\* Express calls the handler: the request is in flight
GenerateArrives(body) ==
    /\ Len(arrived) < MaxGenerates
    /\ arrived' = Append(arrived, body)
    /\ UNCHANGED <<answers, serverVars, genVars, clientVars, viewVars, apiVars>>

\* the answer as the client receives it, with the handler's locals at the return
AnswerOf(body) ==
    [body |-> body, status |-> status, response |-> response,
     placed |-> generatedCoords, spent |-> spent,
     inFlight |-> Len(arrived) - Len(answers)]

\* mutant: generatedCoords is one array of the module, shared by the requests
EndRequestKeepsCoords ==
    /\ gpc = "done"
    /\ answers' = Append(answers, AnswerOf(arrived[Len(answers) + 1]))
    /\ gpc' = "idle"
    /\ req' = NoRequest
    /\ rovingCount' = 0
    /\ randomQuestions' = <<>>
    /\ index' = 0
    /\ attempts' = 0
    /\ finalLat' = 0
    /\ finalLng' = 0
    /\ generated' = <<>>
    /\ response' = <<>>
    /\ status' = 0
    /\ spent' = {}
    /\ UNCHANGED <<generatedCoords, arrived, serverVars, clientVars, viewVars, apiVars>>

\* routes.ts 80-84: the handler returns; its locals (routes.ts 17-33, among them
\* generatedCoords of line 27) were those of this call, the next call has its own
EndRequest ==
    /\ gpc = "done"
    /\ answers' = Append(answers, AnswerOf(arrived[Len(answers) + 1]))
    /\ gpc' = "idle"
    /\ req' = NoRequest
    /\ rovingCount' = 0
    /\ randomQuestions' = <<>>
    /\ index' = 0
    /\ attempts' = 0
    /\ finalLat' = 0
    /\ finalLng' = 0
    /\ generatedCoords' = <<>>
    /\ generated' = <<>>
    /\ response' = <<>>
    /\ status' = 0
    /\ spent' = {}
    /\ UNCHANGED <<arrived, serverVars, clientVars, viewVars, apiVars>>

InitConcurrent ==
    /\ settings = <<[timeLimit |-> 30, checkpointCount |-> 2, rovingCount |-> 1,
                     radius |-> 10]>>
    /\ customCheckpoints = <<>>
    /\ userStats = <<>>
    /\ today = FirstDay
    /\ InitGenerate /\ InitClient /\ InitView /\ InitApi /\ InitRequests

NextRequests ==
    \/ \E body \in RequestBodies : GenerateArrives(body)
    \/ \E body \in RequestBodies :
          /\ Len(answers) < Len(arrived)
          /\ body = arrived[Len(answers) + 1]
          /\ GenerateFails(body)
    \/ \E body \in RequestBodies :
          /\ Len(answers) < Len(arrived)
          /\ body = arrived[Len(answers) + 1]
          /\ GenerateRequest(body)
    \/ \E off \in Offsets : AttemptBreak(off)
    \/ \E off \in Offsets : AttemptRetry(off)
    \/ \E off \in Offsets : AttemptLast(off)
    \/ Respond
    \/ EndRequest

SpecRequests == InitConcurrent /\ [][NextRequests]_vars

\* the positions of a list of checkpoints
PositionsOf(cps) == [i \in DOMAIN cps |-> [lat |-> cps[i].lat, lng |-> cps[i].lng]]

\* the accumulator of the request being served holds its own batch and nothing else
OwnBatch ==
    /\ generatedCoords = PositionsOf(generated)
    /\ \A k \in DOMAIN answers :
          answers[k].status = 200 =>
              /\ answers[k].placed = PositionsOf(answers[k].response)
              /\ Len(answers[k].response)
                   = Min(answers[k].body.count + getSettings(settings).rovingCount,
                         Len(Questions))

\* a candidate is turned down exactly when it fails the checks against the center of
\* its request and the points placed before it in its own batch
ChecksOwnBatch ==
    /\ (gpc = "placing" /\ index' = index /\ attempts' = attempts + 1) =>
          ~Accepts(req.lat, req.lng, req.radius, finalLat', finalLng',
                   PositionsOf(generated))
    /\ (gpc = "placing" /\ index' = index + 1 /\ spent' = spent) =>
          Accepts(req.lat, req.lng, req.radius, generated'[index'].lat,
                  generated'[index'].lng, PositionsOf(generated))

\* C19: with several generate requests in flight, the clearance checks of a request
\* see the points of its own batch only (its accumulator starts empty and holds
\* what it placed itself), and what it is answered is a batch of its own center,
\* radius and count.
Thm_C19 == []OwnBatch /\ [][ChecksOwnBatch]_vars

\* two requests were in flight together, and the second was given, within its
\* budget, a point less than 7 m from a point of the first
Wit_C19 ==
    /\ Len(answers) = 2
    /\ answers[1].inFlight = 2
    /\ answers[1].status = 200 /\ answers[2].status = 200
    /\ answers[1].body # answers[2].body
    /\ \E i \in DOMAIN answers[1].placed : \E j \in DOMAIN answers[2].placed :
          /\ (j - 1) \notin answers[2].spent
          /\ getDistance(answers[1].placed[i].lat, answers[1].placed[i].lng,
                         answers[2].placed[j].lat, answers[2].placed[j].lng)
               < minDistanceBetweenCheckpoints

(***************************************************************************)
(* Further claims about the placement loop (SpecGenerate).                 *)
(***************************************************************************)
\* C21: a checkpoint accepted within its budget lies in [7, radius] m of the center
\* and strictly more than 7 m from every checkpoint placed before it in the batch
\* (those placed by the exhaustion fallback included): a candidate at exactly 7 m
\* of a placed point is never accepted.
CX_C21 ==
    \A j \in DOMAIN generated :
        (j - 1) \notin spent =>
            /\ FromCenter(generated[j]) >= minDistanceFromCenter
            /\ FromCenter(generated[j]) <= req.radius
            /\ \A i \in 1..(j - 1) :
                  Between(generated[i], generated[j]) > minDistanceBetweenCheckpoints

\* the step is the 50th failed attempt of a point
Exhausts ==
    gpc = "placing" /\ attempts + 1 = MaxAttempts /\ index' = index + 1 /\ spent' # spent

\* the step places a point within its budget
PlacesInBudget == gpc = "placing" /\ index' = index + 1 /\ spent' = spent

CX_C23 ==
    [][(/\ hunts' = hunts /\ gameMode = "ar" /\ gameMode' = "ar"
        /\ (lat' # lat \/ lng' # lng \/ inflight' # inflight)) =>
          \A i \in DOMAIN arCheckpoints : \A j \in DOMAIN arCheckpoints' :
              (/\ arCheckpoints[i].id = arCheckpoints'[j].id
               /\ arCheckpoints[i].isRoving /\ ~arCheckpoints[i].collected
               /\ ~arCheckpoints'[j].collected) =>
                  /\ arCheckpoints'[j].lat = arCheckpoints[i].lat
                  /\ arCheckpoints'[j].lng = arCheckpoints[i].lng]_vars

(***************************************************************************)
(* Further claims about the drawing of a checkpoint (SpecBearing).         *)
(***************************************************************************)
\* the checkpoint lies less than 30 degrees to the left or right of the heading
InFieldOfView ==
    \E k \in {0 - 1, 0, 1} : Abs(bearing - compassHeading + 360 * k) < 30

\* C24: a checkpoint is drawn iff it is less than 100 m from the player and
\* |relativeBearing| < 30 (its direction is within 30 degrees of the heading), and
\* the x of a drawn checkpoint is 50 + (relativeBearing / 60) * 100 clamped to
\* [5, 95] (here in thirds of a percent: 150 + 5 * relativeBearing in [15, 285]).
Thm_C24 ==
    /\ screen.drawn <=> (cpDistance < 100 /\ Abs(relativeBearing) < 30)
    /\ screen.drawn <=> (cpDistance < 100 /\ InFieldOfView)
    /\ screen.drawn =>
          LET x == 150 + 5 * relativeBearing
          IN  /\ x < 15 => screen.x = 15
              /\ x > 285 => screen.x = 285
              /\ (15 <= x /\ x <= 285) => screen.x = x

\* a checkpoint 99 m away, 29 degrees to the right: drawn, at the clamped 95%
Wit_C24 ==
    /\ screen.drawn
    /\ cpDistance = 99
    /\ relativeBearing = 29
    /\ screen.x = 285

(***************************************************************************)
(* Further claims about a session of hunts (SpecHunt).                     *)
(***************************************************************************)
\* the checkpoint of this id is collected
IsCollected(id) == \E i \in DOMAIN checkpoints : checkpoints[i].id = id /\ checkpoints[i].collected

\* the step credits the checkpoint's points: the server adds them to total_points
\* for the answer submitted, or the client adds them to the score for the
\* response handled
Credits(id) ==
    \/ /\ activeQuestion.id = id
       /\ inflight' # inflight /\ Len(inflight') > Len(inflight)
       /\ TotalPoints(userStats') > TotalPoints(userStats)
    \/ /\ \E k \in DOMAIN inflight : inflight[k].id = id /\ inflight' = RemoveAt(inflight, k)
       /\ score' > score

\* C25: within a hunt, once a checkpoint is collected no step credits its points
\* again, neither to the score nor to total_points.
CX_C25 ==
    [][\A id \in QuestionIds :
          (hunts' = hunts /\ IsCollected(id)) => ~Credits(id)]_vars

\* the ids of the collected checkpoints
CollectedIds == {checkpoints[i].id : i \in {j \in DOMAIN checkpoints : checkpoints[j].collected}}

\* C26: once the time of a hunt is up (timeRemaining is 0 and gameOver is true), no
\* checkpoint is collected and the score stays as it is until a new hunt starts.
CX_C26 ==
    [][(gameOver /\ timeRemaining = 0 /\ hunts' = hunts) =>
          /\ score' = score
          /\ CollectedIds' = CollectedIds]_vars

\* C27: every hunt is timed: a hunt starts with timeRemaining = timeLimit * 60 and
\* with its countdown running (the countdown effect's condition holds, in the
\* first hunt of a session and in the later ones), timeRemaining only decreases
\* during a hunt and never goes below 0.
CX_C27 ==
    [][/\ hunts' = hunts + 1 =>
            /\ timeRemaining' = getSettings(settings).timeLimit * 60
            /\ gameMode' = "ar" /\ ~gameOver'
       /\ timeRemaining' # NoTime => timeRemaining' >= 0
       /\ (hunts' = hunts /\ timeRemaining' # timeRemaining) =>
            (gameMode = "ar" /\ timeRemaining' < timeRemaining)]_vars

(***************************************************************************)
(* A sequence of POST /api/stats/complete-hunt calls over several days,    *)
(* each call handled before the next arrives (SpecStreak).                 *)
(***************************************************************************)
MaxCompletions == 4     \* complete-hunt calls in a behaviour
MaxStreakDays == 4      \* midnights in a behaviour

\* routes.ts 181-217: a complete-hunt request, handled alone
CompleteHuntCall ==
    /\ HuntsCompleted(userStats) < MaxCompletions
    /\ userStats' = CompleteHunt(userStats, today)
    /\ UNCHANGED <<settings, customCheckpoints, today>>
    /\ UNCHANGED <<genVars, clientVars, viewVars, apiVars, reqVars>>

\* the date changes
DayPasses ==
    /\ today < FirstDay + MaxStreakDays
    /\ today' = today + 1
    /\ UNCHANGED <<settings, customCheckpoints, userStats>>
    /\ UNCHANGED <<genVars, clientVars, viewVars, apiVars, reqVars>>

\* user_stats has no row yet, or the row that a verify created by awarding points
InitStreak ==
    /\ settings = <<>>
    /\ customCheckpoints = <<>>
    /\ userStats \in {<<>>, AddPoints(<<>>, FirstDay, 10)}
    /\ today = FirstDay
    /\ InitGenerate /\ InitClient /\ InitView /\ InitApi /\ InitRequests

NextStreak == CompleteHuntCall \/ DayPasses

SpecStreak == InitStreak /\ [][NextStreak]_vars

\* the row of user_stats, with the defaults while there is none
StatsRow == WithStats(userStats)[1]

\* the step is a complete-hunt call
Completes == HuntsCompleted(userStats') = HuntsCompleted(userStats) + 1

\* C28: over a sequence of complete-hunt calls currentStreak never decreases,
\* streakFreezes is never negative and is at least 1 once a hunt was completed,
\* and a completion after missed days resets the streak to 1 only when it is the
\* first ever: any later one uses a freeze and adds 1.
Thm_C28 ==
    [][/\ StatsRow'.currentStreak >= StatsRow.currentStreak
       /\ StatsRow'.streakFreezes >= 0
       /\ StatsRow'.huntsCompleted >= 1 => StatsRow'.streakFreezes >= 1
       /\ (/\ Completes
           /\ StatsRow.huntsCompleted >= 1
           /\ StatsRow.lastActivityDate < today - 1) =>
             /\ StatsRow'.currentStreak = StatsRow.currentStreak + 1
             /\ StatsRow'.streakFreezes = StatsRow.streakFreezes]_vars

\* three completions two days apart: the streak was carried over two missed days
Wit_C28 ==
    /\ StatsRow.huntsCompleted = 3
    /\ StatsRow.currentStreak = 3
    /\ StatsRow.lastActivityDate = FirstDay + 4
    /\ StatsRow.streakFreezes = 1

\* C29: after a complete-hunt call longestStreak >= currentStreak and
\* lastActivityDate is today; a call on a day that has a completion keeps
\* currentStreak and adds 1 to huntsCompleted and to streakFreezes; a call on the
\* day after the last activity adds 1 to currentStreak and uses no freeze (the
\* gift adds 1 to streakFreezes).
Thm_C29 ==
    [][Completes =>
         /\ StatsRow'.longestStreak >= StatsRow'.currentStreak
         /\ StatsRow'.lastActivityDate = today
         /\ StatsRow'.huntsCompleted = StatsRow.huntsCompleted + 1
         /\ StatsRow.lastActivityDate = today =>
               /\ StatsRow'.currentStreak = StatsRow.currentStreak
               /\ StatsRow'.streakFreezes = StatsRow.streakFreezes + 1
         /\ StatsRow.lastActivityDate = today - 1 =>
               /\ StatsRow'.currentStreak = StatsRow.currentStreak + 1
               /\ StatsRow'.streakFreezes = StatsRow.streakFreezes + 1]_vars

\* two completions on the first day and one on each of the next two days
Wit_C29 ==
    /\ StatsRow.huntsCompleted = 4
    /\ StatsRow.currentStreak = 3
    /\ StatsRow.longestStreak = 3
    /\ StatsRow.streakFreezes = 4
    /\ StatsRow.lastActivityDate = FirstDay + 2

(***************************************************************************)
(* The presented list and the completion of a hunt (SpecGame, SpecHunt).   *)
(***************************************************************************)
\* when a list is presented and all of it is collected, all of the raw list is
PresentedCoversRaw ==
    (Len(sortedCheckpoints) > 0 /\ AllCollected(sortedCheckpoints))
        => AllCollected(checkpoints)

\* the step collects a checkpoint and leaves the presented list all collected
CollectsThePresented ==
    /\ CollectedIds' # CollectedIds
    /\ LET presented == SortedCheckpoints(lat', lng', checkpoints')
       IN  Len(presented) > 0 /\ AllCollected(presented)

\* C30: whenever every checkpoint of the presented list is collected, every
\* checkpoint of the raw list is collected, and the step that collects the last
\* presented checkpoint (of a hunt with time left) fires the completion: it calls
\* complete-hunt, huntsCompleted grows by 1.
CX_C30 ==
    /\ []PresentedCoversRaw
    /\ [][(CollectsThePresented /\ timeRemaining' > 0) =>
             HuntsCompleted(userStats') = HuntsCompleted(userStats) + 1]_vars

====
